---- MODULE Spec2Model ----
(***************************************************************************)
(* what-are-we-eating-today: the daily food poll of bot.py.                *)
(*                                                                         *)
(* The state is the SlackVotes table (one item per channel for today's     *)
(* date), the SlackMapping table, the wall clock, and the record of the    *)
(* handler invocation that ran last: its arguments, the collaborator       *)
(* responses it read, the Slack API calls it made and how it ended.  Each  *)
(* handler (post_vote, check, remind) runs to completion as one action;    *)
(* Return ends the invocation.  Two more specifications follow single      *)
(* calls step by step: the retry loop of Bot.run_method, and two check     *)
(* invocations whose steps interleave; SpecDay runs the handlers at the    *)
(* times lambda_handler schedules them.                                    *)
(*                                                                         *)
(* Collaborators: a Slack message takes the clock's value as its "ts" and  *)
(* the clock moves on by a second; a reaction's count is the number of its *)
(* users; a message without reactions has no "reactions" key, so an empty  *)
(* list stands for the missing key; any Slack call may fail (run_method    *)
(* raises), an answer to chat.postMessage may lack "ts", put_item may      *)
(* fail.  The outcome of an invocation is "ok", "return" (the early return *)
(* on a bomb) or the exception that ended it: "StalePoll" is RuntimeError  *)
(* "Last vote was too long ago", "NoItem" is Exception "No item found".    *)
(***************************************************************************)
EXTENDS Integers, Sequences, FiniteSets, TLC

VARIABLES
    SlackVotes,   \* TABLE_VOTES: the item stored for each ChannelId under today's Date
    SlackMapping, \* TABLE_MAPPING: items WbwUUID -> SlackId; bot.py only reads it
    clock,        \* time.time(), in seconds
    sent,         \* how many messages the bot has written to the channel
    last,         \* the invocation that ran last
    running       \* the calls in progress, where their steps are followed one by one

vars == <<SlackVotes, SlackMapping, clock, sent, last, running>>

-----------------------------------------------------------------------------
(* Program constants                                                       *)

ONE_DAY == 60 * 60 * 24

MAX_RETRIES == 5

\* FoodType of every key of EAT_REACTIONS, in the dict's order
EAT_REACTIONS ==
    [ramen            |-> "pay_advance_bike",
     fries            |-> "pay_advance_deliver",
     pizza            |-> "pay_advance_deliver",
     dragon_face      |-> "pay_advance_deliver",
     knife_fork_plate |-> "pay_self",
     hospital         |-> "pay_self"]

EatKeys == DOMAIN EAT_REACTIONS

HOME_REACTIONS == {"house", "x"}

\* ALL_REACTIONS = {**EAT_REACTIONS, **HOME_REACTIONS}, in insertion order
ALL_REACTIONS ==
    <<"ramen", "fries", "pizza", "dragon_face", "knife_fork_plate", "hospital",
      "house", "x">>

-----------------------------------------------------------------------------
(* Bounds and the sets the collaborators' answers are drawn from           *)

\* the clock stops here
MaxClock == 86403

\* how many messages the bot may write
MaxMessages == 3

\* the longest reaction list Slack answers with
MaxReactions == 2

\* how long the world may wait between two invocations
Delays == {ONE_DAY - 1, ONE_DAY}

\* the channel argument: a channel name or a channel id
Channels == {"#general", "C0"}

\* slack user ids; UBOT is the bot itself, which reacts to its poll only
Users == {"UBOT", "U1", "U2"}
People == Users \ {"UBOT"}

\* reaction names seen on the poll message and on the announcement
PollNames == {"ramen", "fries", "knife_fork_plate", "house", "bomb"}
BeeNames == {"bee", "house"}
FallbackNames == {"ramen", "house", "bomb"}

\* the ledger: its members and the balances (in cents) they may have
WbwIds == {"w1", "w2", "w3"}
Balances == {-500, 250}


None == "None"
NoTs == -1

-----------------------------------------------------------------------------
(* Values                                                                  *)

NoItem == [exists |-> FALSE, Msg |-> NoTs, Choice |-> None, BeeMsg |-> NoTs]

Item(msg, choice, bee) ==
    [exists |-> TRUE, Msg |-> msg, Choice |-> choice, BeeMsg |-> bee]

\* the text of a chat message, by its parts
NoText == [kind |-> "none", choice |-> None, bee |-> FALSE, line |-> "none",
           lowest |-> None]

\* the reactions post_vote seeds on the poll message
Seeded == { ALL_REACTIONS[i] : i \in 1..Len(ALL_REACTIONS) }

\* who may have reacted with a name: the bot and any people if the bot seeded
\* the name on that message, some people otherwise
ReactionUsers(name, seeded) ==
    IF name \in seeded
    THEN { {"UBOT"} \cup X : X \in SUBSET People }
    ELSE (SUBSET People) \ {{}}

\* reaction lists: at most n entries, one per name, count = number of users
ReactionLists(names, seeded, n) ==
    UNION { { { [name |-> nm, users |-> f[nm], count |-> Cardinality(f[nm])]
                : nm \in N }
              : f \in { g \in [N -> SUBSET Users] :
                          \A nm \in N : g[nm] \in ReactionUsers(nm, seeded) } }
            : N \in { M \in SUBSET names : Cardinality(M) <= n } }

\* the channel Slack's answer carries: the id of the channel addressed
SlackChannel(channel) == "C0"

\* one call of Bot.run_method
Call(method, channel, ts, name, text) ==
    [method |-> method, channel |-> channel, ts |-> ts, name |-> name,
     text |-> text]

chat_post_message(channel, text) ==
    Call("chat.postMessage", channel, NoTs, None, text)

reactions_get(channel, timestamp) ==
    Call("reactions.get", channel, timestamp, None, NoText)

reactions_add(channel, timestamp, name) ==
    Call("reactions.add", channel, timestamp, name, NoText)

\* the three messages the bot writes
VoteText == [NoText EXCEPT !.kind = "vote"]

CheckText(choice) ==
    [NoText EXCEPT
        !.kind = "announce",
        !.choice = choice,
        !.bee = EAT_REACTIONS[choice]
                    \in {"pay_advance_deliver", "pay_advance_bike"}]

\* a slip: the bike line and the pay line are swapped
RemindText_swap(choice, lowest) ==
    LET type == EAT_REACTIONS[choice]
        line == IF type = "pay_advance_bike" THEN "pay"
                ELSE IF type = "pay_advance_deliver" THEN "bike"
                ELSE "none"
    IN [NoText EXCEPT
           !.kind = "reminder",
           !.choice = choice,
           !.line = line,
           !.lowest = IF line = "none" THEN None ELSE lowest]

RemindText(choice, lowest) ==
    LET type == EAT_REACTIONS[choice]
        line == IF type = "pay_advance_bike" THEN "bike"
                ELSE IF type = "pay_advance_deliver" THEN "pay"
                ELSE "none"
    IN [NoText EXCEPT
           !.kind = "reminder",
           !.choice = choice,
           !.line = line,
           !.lowest = IF line = "none" THEN None ELSE lowest]

-----------------------------------------------------------------------------
(* The ledger and the identity mapping                                     *)

Nickname(w) == IF w = "w1" THEN "Jelle" ELSE IF w = "w2" THEN "Simone" ELSE "Tim"

\* data["balance"]["member_totals"] of the ledger's answer
Ledgers ==
    { { [id |-> w, nickname |-> Nickname(w), balance |-> b[w]] : w \in WbwIds }
      : b \in [WbwIds -> Balances] }

\* contents of the SlackMapping table: items WbwUUID -> SlackId
MappingTables ==
    { { [WbwUUID |-> w, SlackId |-> f[w]] : w \in { v \in WbwIds : f[v] # None } }
      : f \in [WbwIds -> People \cup {None}] }

\* the tables the poll may run with: w3 has no mapping, w2 may have none
PollTables ==
    { { [WbwUUID |-> "w1", SlackId |-> "U1"], [WbwUUID |-> "w2", SlackId |-> "U2"] },
      { [WbwUUID |-> "w1", SlackId |-> "U1"] } }

slack_mapping(wbw_id, table) ==
    IF \E i \in table : i.WbwUUID = wbw_id
    THEN (CHOOSE i \in table : i.WbwUUID = wbw_id).SlackId
    ELSE None

\* a slip: every member joins, mapped and voting or not
joining_members_all(voted, members, table) == members

\* the members appended to joining_members
joining_members(voted, members, table) ==
    { m \in members : slack_mapping(m.id, table) \in voted }

\* the names random.choice may return; empty when min() raises ValueError
wbw_get_lowest_member(voted, members, table) ==
    LET joining == joining_members(voted, members, table)
        lowest_balance ==
            CHOOSE b \in { m.balance : m \in joining } :
                \A m \in joining : b <= m.balance
    IN IF joining = {} THEN {}
       ELSE { m.nickname : m \in { i \in joining : i.balance = lowest_balance } }

-----------------------------------------------------------------------------
(* Tallying                                                                *)

\* a slip: the abort marker is looked for under another name
HasBomb_boom(reactions) == \E reaction \in reactions : reaction.name = "boom"

HasBomb(reactions) == \E reaction \in reactions : reaction.name = "bomb"

\* voted_slack_ids of check and of remind's fallback
EatVoters(reactions) ==
    UNION { reaction.users : reaction \in { r \in reactions : r.name \in EatKeys } }

\* a slip: every reaction on the announcement counts, not only the bee
BeeVoters_all(reactions) == UNION { reaction.users : reaction \in reactions }

\* voted_slack_ids of remind, from the announcement's reactions
BeeVoters(reactions) ==
    UNION { reaction.users : reaction \in { r \in reactions : r.name = "bee" } }

\* the votes list of check
Votes(reactions) ==
    { [reaction |-> reaction.name, count |-> reaction.count]
      : reaction \in { r \in reactions : r.name \in EatKeys /\ r.count > 1 } }

\* a slip: no staleness test
which_vote_nostale(item, now, votes, given) ==
    IF item.Choice # None
    THEN { [err |-> "ok", choice |-> item.Choice] }
    ELSE IF ~given
    THEN { [err |-> "TypeError", choice |-> None] }
    ELSE IF votes = {}
    THEN { [err |-> "ValueError", choice |-> None] }
    ELSE { [err |-> "ok", choice |-> v.reaction]
           : v \in { i \in votes :
                       \A j \in votes : i.count >= j.count } }

\* a slip: random.choice over all the votes, not over the highest ones
which_vote_any(item, now, votes, given) ==
    IF item.Msg < now - ONE_DAY
    THEN { [err |-> "StalePoll", choice |-> None] }
    ELSE IF item.Choice # None
    THEN { [err |-> "ok", choice |-> item.Choice] }
    ELSE IF ~given
    THEN { [err |-> "TypeError", choice |-> None] }
    ELSE IF votes = {}
    THEN { [err |-> "ValueError", choice |-> None] }
    ELSE { [err |-> "ok", choice |-> v.reaction] : v \in votes }

\* a slip: the stored choice is not looked at, the vote is taken again
which_vote_again(item, now, votes, given) ==
    IF item.Msg < now - ONE_DAY
    THEN { [err |-> "StalePoll", choice |-> None] }
    ELSE IF ~given
    THEN { [err |-> "TypeError", choice |-> None] }
    ELSE IF votes = {}
    THEN { [err |-> "ValueError", choice |-> None] }
    ELSE { [err |-> "ok", choice |-> v.reaction]
           : v \in { i \in votes :
                       \A j \in votes : i.count >= j.count } }

\* which_vote: what it raises or returns; given is FALSE when votes is None.
\* Every element is one outcome, the choice among them is random.choice's.
which_vote(item, now, votes, given) ==
    LET highest_vote ==
            CHOOSE c \in { v.count : v \in votes } :
                \A v \in votes : c >= v.count
    IN IF item.Msg < now - ONE_DAY
       THEN { [err |-> "StalePoll", choice |-> None] }
       ELSE IF item.Choice # None
       THEN { [err |-> "ok", choice |-> item.Choice] }
       ELSE IF ~given
       THEN { [err |-> "TypeError", choice |-> None] }
       ELSE IF votes = {}
       THEN { [err |-> "ValueError", choice |-> None] }
       ELSE { [err |-> "ok", choice |-> v.reaction]
              : v \in { i \in votes : i.count = highest_vote } }

-----------------------------------------------------------------------------
(* Invocations                                                             *)

EmptyTable == [c \in Channels |-> NoItem]

\* no call is followed step by step: every invocation runs as one action
NoCall == [state |-> "none"]

Idle ==
    [op |-> "idle", channel |-> None, now |-> 0, pre |-> EmptyTable,
     outcome |-> None, calls |-> <<>>,
     reactions |-> {}, bee |-> {}, voted |-> {},
     members |-> {}, lowest |-> None, choice |-> None,
     got |-> FALSE, ts |-> NoTs]

\* an invocation of op on channel, begun in the current state
Begin(op, channel) ==
    [Idle EXCEPT !.op = op, !.channel = channel, !.now = clock, !.pre = SlackVotes]

\* dynamodb.put_item replaces the whole item stored under the key
put_item(table, key, item) == [table EXCEPT ![key] = item]

\* the item post_vote writes for the poll message
OpenItem(message) == Item(message.ts, None, NoTs)

\* a slip: the poll's timestamp is stored as the announcement's
DecidedItem_samets(timestamp, choice, ret) == Item(timestamp, choice, timestamp)

\* the item check writes: the poll's timestamp, the choice, the announcement
DecidedItem(timestamp, choice, ret) == Item(timestamp, choice, ret.ts)

\* last_poll: the lookup of today's item; "No item found" when there is none
last_poll(item) == IF ~item.exists THEN "NoItem" ELSE "ok"

\* a slip: the lookup reads the item as last_poll does, without its "BeeMsg"
last_poll_and_bee_nobee(item) == last_poll(item)

\* last_poll_and_bee: the lookup also reads item["BeeMsg"], a KeyError on an
\* item that post_vote wrote and no check has rewritten
last_poll_and_bee(item) ==
    IF ~item.exists THEN "NoItem"
    ELSE IF item.BeeMsg = NoTs THEN "KeyError"
    ELSE "ok"

\* a slip: remind stores the item again the way check does, without a BeeMsg
remind_table_put(table, channel) ==
    IF table[channel].exists
    THEN put_item(table, channel,
                  Item(table[channel].Msg, table[channel].Choice, NoTs))
    ELSE table

\* the table after remind: remind has no put_item call
remind_table(table, channel) == table

\* a message is written: it takes the clock's time as its "ts"
Tick ==
    clock' = clock + 1 /\ sent' = sent + 1 /\ UNCHANGED <<SlackMapping, running>>

Init ==
    /\ SlackVotes = EmptyTable
    /\ SlackMapping \in PollTables
    /\ clock = 0
    /\ sent = 0
    /\ last = Idle
    /\ running = NoCall

\* a slip: only the food options are seeded, not HOME_REACTIONS
SeedCalls_eat(channel, ts, k) ==
    [i \in 1..(IF k < Len(ALL_REACTIONS) THEN k + 1 ELSE Cardinality(EatKeys))
        |-> reactions_add(channel, ts, ALL_REACTIONS[i])]

\* the reactions.add calls of post_vote that were sent when k of them succeeded
SeedCalls(channel, ts, k) ==
    [i \in 1..(IF k < Len(ALL_REACTIONS) THEN k + 1 ELSE k)
        |-> reactions_add(channel, ts, ALL_REACTIONS[i])]

post_vote(channel) ==
    /\ last.op = "idle"
    /\ sent < MaxMessages
    /\ LET b == Begin("post_vote", channel)
           post == chat_post_message(channel, VoteText)
           message == [ts |-> clock, channel |-> SlackChannel(channel)]
           ts == message.ts
           ch == message.channel
       IN \/ \* chat.postMessage fails
             /\ last' = [b EXCEPT !.outcome = "SlackError", !.calls = <<post>>]
             /\ UNCHANGED <<SlackVotes, SlackMapping, clock, sent, running>>
          \/ \* the answer has no "ts"
             /\ last' = [b EXCEPT !.outcome = "InvalidResponse", !.calls = <<post>>]
             /\ UNCHANGED <<SlackVotes, SlackMapping, clock, sent, running>>
          \/ \* put_item fails
             /\ last' = [b EXCEPT !.outcome = "DbError", !.calls = <<post>>,
                                  !.ts = ts]
             /\ Tick
             /\ UNCHANGED SlackVotes
          \/ \* the item is written, then k reactions are added before one fails
             \E k \in 0..Len(ALL_REACTIONS) :
                /\ SlackVotes' = put_item(SlackVotes, ch, OpenItem(message))
                /\ Tick
                /\ last' = [b EXCEPT
                       !.ts = ts,
                       !.outcome = IF k = Len(ALL_REACTIONS) THEN "ok" ELSE "SlackError",
                       !.calls = <<post>> \o SeedCalls(ch, ts, k)]

check(channel) ==
    /\ last.op = "idle"
    /\ sent < MaxMessages
    /\ LET b == Begin("check", channel)
           item == SlackVotes[channel]
           timestamp == item.Msg
           get == reactions_get(channel, timestamp)
       IN IF last_poll(item) # "ok"
          THEN \* last_poll: No item found
               /\ last' = [b EXCEPT !.outcome = last_poll(item)]
               /\ UNCHANGED <<SlackVotes, SlackMapping, clock, sent, running>>
          ELSE
          \/ \* reactions.get fails
             /\ last' = [b EXCEPT !.outcome = "SlackError", !.calls = <<get>>]
             /\ UNCHANGED <<SlackVotes, SlackMapping, clock, sent, running>>
          \/ \E reactions \in ReactionLists(PollNames, Seeded, MaxReactions) :
             LET r == [b EXCEPT !.reactions = reactions, !.calls = <<get>>,
                                !.got = TRUE, !.voted = EatVoters(reactions)]
             IN IF reactions = {}
                THEN \* the message has no "reactions"
                     /\ last' = [r EXCEPT !.outcome = "KeyError"]
                     /\ UNCHANGED <<SlackVotes, SlackMapping, clock, sent, running>>
                ELSE IF HasBomb(reactions)
                THEN /\ last' = [r EXCEPT !.outcome = "return"]
                     /\ UNCHANGED <<SlackVotes, SlackMapping, clock, sent, running>>
                ELSE
                \E w \in which_vote(item, clock, Votes(reactions), TRUE) :
                   IF w.err # "ok"
                   THEN /\ last' = [r EXCEPT !.outcome = w.err]
                        /\ UNCHANGED <<SlackVotes, SlackMapping, clock, sent, running>>
                   ELSE
                   LET choice == w.choice
                       post == chat_post_message(channel, CheckText(choice))
                       c == [r EXCEPT !.choice = choice, !.calls = <<get, post>>]
                       ret == [ts |-> clock, channel |-> SlackChannel(channel)]
                   IN \/ /\ last' = [c EXCEPT !.outcome = "SlackError"]
                         /\ UNCHANGED <<SlackVotes, SlackMapping, clock, sent, running>>
                      \/ /\ last' = [c EXCEPT !.outcome = "InvalidResponse"]
                         /\ UNCHANGED <<SlackVotes, SlackMapping, clock, sent, running>>
                      \/ /\ last' = [c EXCEPT !.outcome = "DbError", !.ts = ret.ts]
                         /\ Tick
                         /\ UNCHANGED SlackVotes
                      \/ /\ last' = [c EXCEPT !.outcome = "ok", !.ts = ret.ts]
                         /\ Tick
                         /\ SlackVotes' =
                               put_item(SlackVotes, ret.channel,
                                        DecidedItem(timestamp, choice, ret))

remind(channel) ==
    /\ last.op = "idle"
    /\ sent < MaxMessages
    /\ LET b == Begin("remind", channel)
           item == SlackVotes[channel]
           timestamp == item.Msg
           bee_timestamp == item.BeeMsg
           getbee == reactions_get(channel, bee_timestamp)
           get == reactions_get(channel, timestamp)
       IN /\ SlackVotes' = remind_table(SlackVotes, channel)
          /\ IF last_poll_and_bee(item) # "ok"
             THEN \* No item found, or the item has no "BeeMsg"
                  last' = [b EXCEPT !.outcome = last_poll_and_bee(item)]
                     /\ UNCHANGED <<SlackMapping, clock, sent, running>>
             ELSE
             \E w \in which_vote(item, clock, {}, FALSE) :
             IF w.err # "ok"
             THEN last' = [b EXCEPT !.outcome = w.err] /\ UNCHANGED <<SlackMapping, clock, sent, running>>
             ELSE
             LET choice == w.choice
                 c == [b EXCEPT !.choice = choice]
             IN \/ \* reactions.get of the announcement fails
                   /\ last' = [c EXCEPT !.outcome = "SlackError", !.calls = <<getbee>>]
                   /\ UNCHANGED <<SlackMapping, clock, sent, running>>
                \/ \E bee \in ReactionLists(BeeNames, {}, MaxReactions) :
                   \E reactions \in IF BeeVoters(bee) = {}
                                    THEN ReactionLists(FallbackNames, Seeded, MaxReactions)
                                    ELSE {{}} :
                   LET fallback == BeeVoters(bee) = {}
                       calls == IF fallback THEN <<getbee, get>> ELSE <<getbee>>
                       voted == IF fallback THEN EatVoters(reactions) ELSE BeeVoters(bee)
                       r == [c EXCEPT !.bee = bee, !.reactions = reactions,
                                      !.calls = calls, !.got = fallback]
                   IN IF fallback /\ reactions = {}
                      THEN \* the poll message has no "reactions"
                           last' = [r EXCEPT !.outcome = "KeyError"] /\ UNCHANGED <<SlackMapping, clock, sent, running>>
                      ELSE IF fallback /\ HasBomb(reactions)
                      THEN last' = [r EXCEPT !.outcome = "return"] /\ UNCHANGED <<SlackMapping, clock, sent, running>>
                      ELSE
                      \E members \in Ledgers :
                      LET names == wbw_get_lowest_member(voted, members, SlackMapping)
                          v == [r EXCEPT !.voted = voted, !.members = members]
                      IN IF names = {}
                         THEN last' = [v EXCEPT !.outcome = "ValueError"]
                              /\ UNCHANGED <<SlackMapping, clock, sent, running>>
                         ELSE
                         \E lowest \in names :
                         LET post == chat_post_message(channel,
                                                       RemindText(choice, lowest))
                             p == [v EXCEPT !.lowest = lowest,
                                            !.calls = calls \o <<post>>]
                         IN \/ last' = [p EXCEPT !.outcome = "SlackError"]
                               /\ UNCHANGED <<SlackMapping, clock, sent, running>>
                            \/ last' = [p EXCEPT !.outcome = "ok", !.ts = clock]
                               /\ Tick

\* the invocation has ended; the next event may start one
Return ==
    /\ last.op # "idle"
    /\ last' = Idle
    /\ UNCHANGED <<SlackVotes, SlackMapping, clock, sent, running>>

\* time passes between two invocations
Pass ==
    /\ last.op = "idle"
    /\ \E d \in Delays :
          /\ clock + d <= MaxClock
          /\ clock' = clock + d
    /\ UNCHANGED <<SlackVotes, SlackMapping, sent, last, running>>

Next ==
    \/ \E channel \in Channels : post_vote(channel)
    \/ \E channel \in Channels : check(channel)
    \/ \E channel \in Channels : remind(channel)
    \/ Return
    \/ Pass

Spec == Init /\ [][Next]_vars

-----------------------------------------------------------------------------
(* Payer selection on its own: any mapping table, any voters, any ledger    *)

InitPayer ==
    /\ SlackVotes = EmptyTable
    /\ SlackMapping \in MappingTables
    /\ clock = 0
    /\ sent = 0
    /\ last = Idle
    /\ running = NoCall

PayerCall ==
    /\ last.op = "idle"
    /\ \E voted \in SUBSET Users, members \in Ledgers :
          LET names == wbw_get_lowest_member(voted, members, SlackMapping)
              b == [Begin("wbw_get_lowest_member", None) EXCEPT
                       !.voted = voted, !.members = members]
          IN IF names = {}
             THEN last' = [b EXCEPT !.outcome = "ValueError"]
             ELSE \E lowest \in names :
                     last' = [b EXCEPT !.outcome = "ok", !.lowest = lowest]
    /\ UNCHANGED <<SlackVotes, SlackMapping, clock, sent, running>>

NextPayer == PayerCall \/ Return

SpecPayer == InitPayer /\ [][NextPayer]_vars

-----------------------------------------------------------------------------
(* Bot.run_method on its own: one step per pass of its retry loop          *)

\* the methods bot.py calls through run_method
Methods == {"chat.postMessage", "reactions.get", "reactions.add"}

\* what Slack may answer to a request: the decoded "data"
Answers ==
    { [ok |-> TRUE,  error |-> None, ts |-> TRUE],
      [ok |-> TRUE,  error |-> None, ts |-> FALSE],
      [ok |-> FALSE, error |-> "ratelimited", ts |-> FALSE],
      [ok |-> FALSE, error |-> "channel_not_found", ts |-> FALSE],
      [ok |-> FALSE, error |-> "invalid_auth", ts |-> FALSE] }

\* a slip: every error answer is retried like "ratelimited"
run_method_step_retry(x, data) ==
    IF data.ok THEN [state |-> "returned", sleep |-> 0]
    ELSE [state |-> IF x + 1 < MAX_RETRIES THEN "loop" ELSE "raised",
          sleep |-> (x + 1) * 2]

\* a slip: the wait is counted from the loop index 0
run_method_step_index0(x, data) ==
    IF data.ok THEN [state |-> "returned", sleep |-> 0]
    ELSE IF data.error = "ratelimited"
    THEN [state |-> IF x + 1 < MAX_RETRIES THEN "loop" ELSE "raised",
          sleep |-> x * 2]
    ELSE [state |-> "raised", sleep |-> 0]

\* the body of "for x in range(MAX_RETRIES)" after the answer data came in:
\* return, or sleep and go on (the raise after the loop when x was the last
\* index), or raise
run_method_step(x, data) ==
    IF data.ok THEN [state |-> "returned", sleep |-> 0]
    ELSE IF data.error = "ratelimited"
    THEN [state |-> IF x + 1 < MAX_RETRIES THEN "loop" ELSE "raised",
          sleep |-> (x + 1) * 2]
    ELSE [state |-> "raised", sleep |-> 0]

InitRun == Init

\* run_method is called: the loop begins with x = 0
RunCall(method, channel) ==
    /\ running.state = "none"
    /\ running' = [state |-> "loop", method |-> method, channel |-> channel,
                   x |-> 0, data |-> <<>>, slept |-> <<>>]
    /\ UNCHANGED <<SlackVotes, SlackMapping, clock, sent, last>>

\* one pass of the loop: the request is sent, Slack answers
RunRequest ==
    /\ running.state = "loop"
    /\ \E data \in Answers :
          LET step == run_method_step(running.x, data)
          IN running' = [running EXCEPT
                 !.state = step.state,
                 !.x = @ + 1,
                 !.data = Append(@, data),
                 !.slept = IF step.sleep > 0 THEN Append(@, step.sleep) ELSE @]
    /\ UNCHANGED <<SlackVotes, SlackMapping, clock, sent, last>>

\* the caller has the answer or the exception
RunEnd ==
    /\ running.state \in {"returned", "raised"}
    /\ running' = NoCall
    /\ UNCHANGED <<SlackVotes, SlackMapping, clock, sent, last>>

NextRun ==
    \/ \E method \in Methods, channel \in Channels : RunCall(method, channel)
    \/ RunRequest
    \/ RunEnd

\* every request sent is answered: client.request blocks until it is
SpecRun == InitRun /\ [][NextRun]_vars /\ WF_vars(RunRequest)

-----------------------------------------------------------------------------
(* One day of scheduled events: lambda_handler without "override"          *)

\* seconds after midnight at which an event invokes the lambda
EventTimes == { 9 * 3600, 12 * 3600, 16 * 3600, 16 * 3600 + 45 * 60 }

\* the day begins at midnight; SLACK_CHANNEL is the deployment's, for the day
InitDay ==
    /\ SlackVotes = EmptyTable
    /\ SlackMapping \in PollTables
    /\ clock = 0
    /\ sent = 0
    /\ last = Idle
    /\ running \in { [state |-> "none", channel |-> c] : c \in Channels }

\* time passes until the next event
Wake ==
    /\ last.op = "idle"
    /\ \E t \in EventTimes : clock < t /\ clock' = t
    /\ UNCHANGED <<SlackVotes, SlackMapping, sent, last, running>>

\* the three "if now.hour == .. and now.minute == .." of lambda_handler
lambda_handler(channel) ==
    LET hour == (clock \div 3600) % 24
        minute == (clock \div 60) % 60
    IN /\ clock \in EventTimes
       /\ IF hour = 9 /\ minute = 0 THEN post_vote(channel)
          ELSE IF hour = 16 /\ minute = 0 THEN check(channel)
          ELSE IF hour = 16 /\ minute = 45 THEN check(channel)
          ELSE /\ last.op = "idle"
               /\ last' = [Begin("none", channel) EXCEPT !.outcome = "ok"]
               /\ UNCHANGED <<SlackVotes, SlackMapping, clock, sent, running>>

\* the invocation has ended, and the second of the event is over
DayReturn ==
    /\ last.op # "idle"
    /\ last' = Idle
    /\ clock' = IF clock \in EventTimes THEN clock + 1 ELSE clock
    /\ UNCHANGED <<SlackVotes, SlackMapping, sent, running>>

NextDay ==
    \/ Wake
    \/ lambda_handler(running.channel)
    \/ DayReturn

SpecDay == InitDay /\ [][NextDay]_vars

-----------------------------------------------------------------------------
(* Two check invocations on one open poll, statement by statement          *)

Procs == {1, 2}

RaceChannel == "C0"

\* the reactions the two invocations may read from the poll message
RaceNames == {"ramen", "fries"}

\* an invocation of check before its first statement
Started ==
    [pc |-> "last_poll", timestamp |-> NoTs, votes |-> {}, seen |-> None,
     choice |-> None, ts |-> NoTs, outcome |-> None]

\* post_vote has posted the poll at time 0 and written its item; two events
\* have each started a check
InitRace ==
    /\ SlackVotes = put_item(EmptyTable, RaceChannel,
                             OpenItem([ts |-> 0, channel |-> RaceChannel]))
    /\ SlackMapping \in PollTables
    /\ clock = 1
    /\ sent = 1
    /\ last = Idle
    /\ running = [p \in Procs |-> Started]

Ended(p, outcome) ==
    running' = [running EXCEPT ![p].pc = "done", ![p].outcome = outcome]

\* timestamp = last_poll(channel)
RaceLastPoll(p) ==
    /\ running[p].pc = "last_poll"
    /\ LET item == SlackVotes[RaceChannel]
       IN IF last_poll(item) # "ok"
          THEN Ended(p, last_poll(item))
          ELSE running' = [running EXCEPT ![p].pc = "reactions_get",
                                          ![p].timestamp = item.Msg]
    /\ UNCHANGED <<SlackVotes, SlackMapping, clock, sent, last>>

\* reactions_get, the bomb test and the votes list
RaceReactions(p) ==
    /\ running[p].pc = "reactions_get"
    /\ \/ Ended(p, "SlackError")
       \/ \E reactions \in ReactionLists(RaceNames, Seeded, MaxReactions) :
             IF reactions = {} THEN Ended(p, "KeyError")
             ELSE IF HasBomb(reactions) THEN Ended(p, "return")
             ELSE running' = [running EXCEPT ![p].pc = "which_vote",
                                             ![p].votes = Votes(reactions)]
    /\ UNCHANGED <<SlackVotes, SlackMapping, clock, sent, last>>

\* choice = which_vote(channel, votes): its get_item reads the item as it is now
RaceWhichVote(p) ==
    /\ running[p].pc = "which_vote"
    /\ LET item == SlackVotes[RaceChannel]
       IN \E w \in which_vote(item, clock, running[p].votes, TRUE) :
             IF w.err # "ok"
             THEN Ended(p, w.err)
             ELSE running' = [running EXCEPT ![p].pc = "chat_post_message",
                                             ![p].seen = item.Choice,
                                             ![p].choice = w.choice]
    /\ UNCHANGED <<SlackVotes, SlackMapping, clock, sent, last>>

\* ret = bot.chat_post_message(channel, message)
RacePost(p) ==
    /\ running[p].pc = "chat_post_message"
    /\ sent < MaxMessages
    /\ \/ /\ Ended(p, "SlackError")
          /\ UNCHANGED <<clock, sent>>
       \/ /\ Ended(p, "InvalidResponse")
          /\ UNCHANGED <<clock, sent>>
       \/ /\ running' = [running EXCEPT ![p].pc = "put_item", ![p].ts = clock]
          /\ clock' = clock + 1
          /\ sent' = sent + 1
    /\ UNCHANGED <<SlackVotes, SlackMapping, last>>

\* dynamodb.put_item of the decided item
RacePut(p) ==
    /\ running[p].pc = "put_item"
    /\ \/ /\ Ended(p, "DbError")
          /\ UNCHANGED SlackVotes
       \/ /\ Ended(p, "ok")
          /\ SlackVotes' =
                put_item(SlackVotes, SlackChannel(RaceChannel),
                         DecidedItem(running[p].timestamp, running[p].choice,
                                     [ts |-> running[p].ts,
                                      channel |-> SlackChannel(RaceChannel)]))
    /\ UNCHANGED <<SlackMapping, clock, sent, last>>

NextRace ==
    \E p \in Procs :
       \/ RaceLastPoll(p)
       \/ RaceReactions(p)
       \/ RaceWhichVote(p)
       \/ RacePost(p)
       \/ RacePut(p)

SpecRace == InitRace /\ [][NextRace]_vars

-----------------------------------------------------------------------------
(* What the claims read from the invocation that ran last                  *)

\* the item under the invocation's key, after it and before it
Rec == SlackVotes[last.channel]
PreRec == last.pre[last.channel]

Tallied == last.op = "check" /\ PreRec.exists
Reminded == last.op = "remind" /\ PreRec.exists

\* the poll message was more than 24 hours old when the invocation began
Stale == PreRec.Msg < last.now - ONE_DAY

\* the chat.postMessage calls of the invocation
Posts == { i \in 1..Len(last.calls) : last.calls[i].method = "chat.postMessage" }

\* a reaction list came back for the poll message
ListRead == last.got /\ last.reactions # {}

BombRead == \E r \in last.reactions : r.name = "bomb"

FoodRead == { r \in last.reactions : r.name \in EatKeys }

\* the collaborators all answered: no call failed
Answered == last.outcome \notin {"SlackError", "InvalidResponse", "DbError"}

\* the ledger members whose mapped slack id is among the voters
Eligible ==
    { m \in last.members :
        \E i \in SlackMapping : i.WbwUUID = m.id /\ i.SlackId \in last.voted }

-----------------------------------------------------------------------------
(* Claims                                                                  *)

\* C1: once an item's Choice is set, no invocation of post_vote, check or
\* remind on that key leaves the item with another Choice or with none.
C1_DecisionImmutable ==
    \A c \in Channels :
        last.pre[c].Choice # None => SlackVotes[c].Choice = last.pre[c].Choice

\* C2: post_vote on a key that already has an item fails with DuplicatePoll
\* and leaves the table as it was.
C2_DuplicatePollRejected ==
    (last.op = "post_vote" /\ PreRec.exists)
        => (last.outcome = "DuplicatePoll" /\ SlackVotes = last.pre)

\* C3: check on an open poll whose reactions all have count <= 1 (no bomb)
\* posts exactly one message, the apology, and stores no Choice.
C3_NoQuorumApology ==
    (Tallied /\ PreRec.Choice = None /\ ~Stale /\ ListRead /\ ~BombRead
       /\ \A r \in last.reactions : r.count <= 1)
        => /\ Cardinality(Posts) = 1
           /\ \A i \in Posts : last.calls[i].text.kind = "apology"
           /\ Rec.Choice = None

\* C4: when the poll message carries a bomb reaction, check makes one API
\* call, the reactions.get of the poll message, and returns: nothing is
\* posted, no reaction added, the table is as it was.
C4_BombAborts ==
    (Tallied /\ last.got /\ BombRead)
        => /\ last.outcome = "return"
           /\ Len(last.calls) = 1
           /\ last.calls[1].method = "reactions.get"
           /\ last.calls[1].ts = PreRec.Msg
           /\ SlackVotes = last.pre
           /\ last.ts = NoTs

C4_Witness ==
    /\ Tallied /\ last.got /\ BombRead
    /\ last.outcome = "return"
    /\ \E r \in FoodRead : r.count > 1

C6_WinnerIsHighest ==
    (Tallied /\ PreRec.Choice = None /\ last.choice # None)
        => \E r \in FoodRead :
              /\ r.name = last.choice
              /\ r.count > 1
              /\ \A q \in FoodRead : q.count <= r.count

C6_Witness ==
    /\ Tallied /\ PreRec.Choice = None /\ last.outcome = "ok"
    /\ \E r, q \in FoodRead :
          r.name = last.choice /\ q.name # r.name /\ q.count > 1 /\ r.count > q.count

\* C7: when a member is eligible (mapped to a slack id among the voters),
\* wbw_get_lowest_member returns, without error, the nickname of an eligible
\* member whose balance is the lowest among the eligible ones; a member
\* without mapping is never returned.
C7_LowestEligible ==
    /\ last.lowest # None
          => \E m \in Eligible :
                /\ m.nickname = last.lowest
                /\ \A n \in Eligible : m.balance <= n.balance
    /\ (last.op = "wbw_get_lowest_member" /\ Eligible # {})
          => (last.outcome = "ok" /\ last.lowest # None)

C7_Witness ==
    /\ last.op = "wbw_get_lowest_member"
    /\ last.lowest # None
    /\ \E m \in Eligible, u \in last.members :
          /\ m.nickname = last.lowest
          /\ \A i \in SlackMapping : i.WbwUUID # u.id
          /\ u.balance < m.balance

\* C8: check on an open poll with a qualifying vote, but with no ledger
\* member mapped to a voter, posts the apology, no announcement, and stores
\* no Choice.
C8_NoEligiblePayerApology ==
    (Tallied /\ PreRec.Choice = None /\ ~Stale /\ ListRead /\ ~BombRead /\ Answered
       /\ (\E r \in FoodRead : r.count > 1)
       /\ \A i \in SlackMapping : i.SlackId \notin UNION { r.users : r \in FoodRead })
        => /\ Cardinality(Posts) = 1
           /\ \A i \in Posts : last.calls[i].text.kind = "apology"
           /\ Rec.Choice = None

\* C9: remind on an item with a stored Choice goes on with that Choice, so
\* every message it posts is the reminder of that Choice whatever the
\* reactions are, and it leaves the item as it was for the next remind.
C9_RemindRepeatsDecision ==
    (Reminded /\ PreRec.Choice # None)
        => /\ last.outcome # "StalePoll" => last.choice = PreRec.Choice
           /\ \A i \in Posts :
                 /\ last.calls[i].text.kind = "reminder"
                 /\ last.calls[i].text.choice = PreRec.Choice
           /\ Rec = PreRec

C9_Witness ==
    /\ Reminded /\ PreRec.Choice # None
    /\ last.outcome = "ok" /\ Posts # {}
    /\ last.got
    /\ \E r \in FoodRead : r.name # PreRec.Choice /\ r.count > 1

\* C10: after a successful check on an open poll the item has the announced
\* option as its Choice, the announcement's ts as its BeeMsg, and the Msg it
\* had before.
C10_TallyPersists ==
    (Tallied /\ PreRec.Choice = None /\ last.outcome = "ok")
        => /\ Rec.exists
           /\ Rec.Choice # None
           /\ Cardinality(Posts) = 1
           /\ \A i \in Posts :
                 /\ last.calls[i].text.kind = "announce"
                 /\ last.calls[i].text.choice = Rec.Choice
           /\ last.ts # NoTs
           /\ Rec.BeeMsg = last.ts
           /\ Rec.Msg = PreRec.Msg

C10_Witness ==
    /\ Tallied /\ PreRec.Choice = None /\ last.outcome = "ok"
    /\ Rec.BeeMsg # Rec.Msg

\* C11: check on an item that already has a Choice leaves the item as it was:
\* the Choice and the BeeMsg written by the first successful check are both
\* unchanged after any later check.
C11_RetallyNoOp ==
    (Tallied /\ PreRec.Choice # None)
        => (Rec.Choice = PreRec.Choice /\ Rec.BeeMsg = PreRec.BeeMsg)

\* C12: remind leaves the table of polls as it was, whatever the item, the
\* answers of Slack and of the ledger, and however remind ends.
C12_RemindReadOnly ==
    last.op = "remind" => SlackVotes = last.pre

C12_Witness ==
    /\ Reminded /\ last.outcome = "ok" /\ Posts # {}
    /\ SlackVotes = last.pre

\* C13: without an item for today's key, or with an item that has no Choice
\* or no BeeMsg, remind fails in its lookup: no Slack call is made and
\* nothing is posted.
C13_RemindNeedsDecided ==
    (last.op = "remind"
       /\ (~PreRec.exists \/ PreRec.Choice = None \/ PreRec.BeeMsg = NoTs))
        => /\ last.outcome = (IF PreRec.exists THEN "KeyError" ELSE "NoItem")
           /\ last.calls = <<>>
           /\ last.ts = NoTs

C13_Witness ==
    /\ Reminded /\ PreRec.Choice = None /\ PreRec.BeeMsg = NoTs
    /\ last.outcome = "KeyError"
    /\ last.calls = <<>>

\* the reactions.add calls of the invocation
Adds == { i \in 1..Len(last.calls) : last.calls[i].method = "reactions.add" }

\* C14: a post_vote that ends normally has posted one message, the poll; the
\* table has one item with that message's ts as Msg, without Choice, under
\* the channel of the message; and after the post it has added to that
\* message each reaction of ALL_REACTIONS once and no other reaction.
C14_OpenPollSeeds ==
    (last.op = "post_vote" /\ last.outcome = "ok")
        => /\ Cardinality(Posts) = 1
           /\ last.calls[1].method = "chat.postMessage"
           /\ last.calls[1].text.kind = "vote"
           /\ last.ts # NoTs
           /\ Cardinality({ c \in Channels : SlackVotes[c].Msg = last.ts }) = 1
           /\ \A c \in Channels :
                 SlackVotes[c].Msg = last.ts
                    => /\ SlackVotes[c].exists
                       /\ SlackVotes[c].Choice = None
                       /\ SlackVotes[c].BeeMsg = NoTs
           /\ Adds = 2..Len(last.calls)
           /\ Cardinality(Adds) = Len(ALL_REACTIONS)
           /\ { last.calls[i].name : i \in Adds }
                 = { ALL_REACTIONS[i] : i \in 1..Len(ALL_REACTIONS) }
           /\ \A i \in Adds :
                 /\ last.calls[i].ts = last.ts
                 /\ SlackVotes[last.calls[i].channel].Msg = last.ts

C14_Witness ==
    /\ last.op = "post_vote" /\ last.outcome = "ok"
    /\ Cardinality(Adds) = Len(ALL_REACTIONS)
    /\ \E c \in Channels : SlackVotes[c].Msg = last.ts /\ SlackVotes[c].Choice = None

\* the answers run_method has read that were rate limited
RateLimited ==
    { i \in 1..Len(running.data) : running.data[i].error = "ratelimited" }

\* C15: an answer that is not ok and whose error is not "ratelimited" is the
\* last one run_method reads: it raises at once, at whatever pass of the
\* loop, without a wait and without another request.
C15_ErrorFailsAtOnce ==
    running.state # "none"
        => \A i \in 1..Len(running.data) :
              (~running.data[i].ok /\ running.data[i].error # "ratelimited")
                 => /\ i = Len(running.data)
                    /\ running.x = i
                    /\ running.state = "raised"
                    /\ Len(running.slept) = i - 1

C15_Witness ==
    /\ running.state = "raised"
    /\ Len(running.data) = 3
    /\ running.data[3].error = "invalid_auth"
    /\ running.data[1].error = "ratelimited"

\* what C16 says of every state of a call
RunBounded ==
    running.state # "none"
        => /\ running.x = Len(running.data)
           /\ Len(running.data) <= MAX_RETRIES
           /\ running.state = "loop" => Len(running.data) < MAX_RETRIES
           /\ Len(running.slept) = Cardinality(RateLimited)
           /\ \A i \in RateLimited : i <= Len(running.slept) /\ running.slept[i] = i * 2
           /\ \A i \in 1..Len(running.data) :
                 running.data[i].ok
                    => (i = Len(running.data) /\ running.state = "returned")
           /\ running.state = "returned"
                 => (running.data # <<>> /\ running.data[Len(running.data)].ok)
           /\ Cardinality(RateLimited) = MAX_RETRIES => running.state = "raised"

\* C16: run_method ends: it sends at most MAX_RETRIES requests, waits twice
\* the attempt's number (from 1) in seconds after each rate limited answer,
\* returns the first ok answer, raises when MAX_RETRIES answers were rate
\* limited, and a call in its loop always comes to return or raise.
C16_RunMethodTerminates ==
    /\ []RunBounded
    /\ (running.state = "loop") ~> (running.state \in {"returned", "raised"})

C16_Witness ==
    /\ running.state = "raised"
    /\ Cardinality(RateLimited) = MAX_RETRIES
    /\ running.slept = <<2, 4, 6, 8, 10>>

\* C17: on a day of scheduled events the poll is posted, check decides it,
\* and the pass that comes when the item has its Choice is remind, not a
\* second check.
C17_LaterPassReminds ==
    (last.op \in {"post_vote", "check", "remind"} /\ PreRec.Choice # None)
        => last.op = "remind"

\* the invocation has posted its announcement
Announced(p) == running[p].ts # NoTs

\* the invocation has written its item
Persisted(p) == running[p].pc = "done" /\ running[p].outcome = "ok"

\* C18 as stated: however the statements of two check invocations on one
\* open poll interleave, the options they announce are the same one.
C18_OneDecision ==
    \A p, q \in Procs :
       (Announced(p) /\ Announced(q)) => running[p].choice = running[q].choice

\* C18 amended: an invocation whose which_vote reads a stored Choice goes on
\* with it, so two announced options differ only when both invocations read
\* the item before either wrote; and the stored Choice is always an option
\* that an invocation announced and wrote.
C18_RaceWindow ==
    /\ \A p \in Procs :
          (running[p].choice # None /\ running[p].seen # None)
             => running[p].choice = running[p].seen
    /\ \A p, q \in Procs :
          (Announced(p) /\ Announced(q)
             /\ running[p].choice # running[q].choice)
             => (running[p].seen = None /\ running[q].seen = None)
    /\ SlackVotes[RaceChannel].Choice # None
          => \E p \in Procs :
                /\ Persisted(p)
                /\ running[p].choice = SlackVotes[RaceChannel].Choice
                /\ running[p].ts = SlackVotes[RaceChannel].BeeMsg

C18_Witness ==
    \E p, q \in Procs :
       /\ p # q /\ Persisted(p) /\ Persisted(q)
       /\ running[p].seen = None
       /\ running[q].seen = running[p].choice
       /\ running[q].choice = running[p].choice
       /\ \E v \in running[q].votes :
             v.reaction # running[q].choice
                /\ \A u \in running[q].votes : u.count <= v.count

\* remind has called wbw_get_lowest_member
PayerSelected == last.op = "remind" /\ last.members # {}

\* who reacted to the announcement, with any reaction and with the bee
BeeMsgUsers == UNION { r.users : r \in last.bee }
BeeUsers == UNION { r.users : r \in { q \in last.bee : q.name = "bee" } }

\* who reacted to the poll message with a food option
FoodUsers == UNION { r.users : r \in FoodRead }

\* C19 as stated: the voters remind passes to wbw_get_lowest_member are the
\* users who reacted to the announcement, and those of the food reactions of
\* the poll message exactly when the announcement has no reactions.
C19_AnyReactionCounts ==
    PayerSelected
        => /\ last.got <=> last.bee = {}
           /\ last.voted = IF last.bee # {} THEN BeeMsgUsers ELSE FoodUsers

\* C19 amended: the voters are the users of the announcement's bee reaction,
\* and those of the food reactions of the poll message, which remind then
\* fetches, exactly when no user has reacted with the bee.
C19_BeeVotersOrFallback ==
    PayerSelected
        => /\ last.got <=> BeeUsers = {}
           /\ last.voted = IF BeeUsers # {} THEN BeeUsers ELSE FoodUsers
           /\ last.calls[1] = reactions_get(last.channel, PreRec.BeeMsg)
           /\ last.got => last.calls[2] = reactions_get(last.channel, PreRec.Msg)
           /\ ~last.got
                 => \A i \in 1..Len(last.calls) : last.calls[i].ts # PreRec.Msg

C19_Witness ==
    /\ PayerSelected /\ last.outcome = "ok"
    /\ last.bee # {} /\ BeeUsers = {}
    /\ last.got /\ last.voted = FoodUsers /\ FoodUsers # {}

\* C20: the reminder has the bike line exactly for a pay_advance_bike
\* choice, the pay line exactly for a pay_advance_deliver choice and no
\* payer line for a pay_self choice; the name in the line is the one
\* wbw_get_lowest_member returned for the voters of this remind.
C20_PayerLineByType ==
    Reminded
        => \A i \in Posts :
              LET text == last.calls[i].text
                  type == EAT_REACTIONS[PreRec.Choice]
              IN /\ text.kind = "reminder"
                 /\ text.line = "bike" <=> type = "pay_advance_bike"
                 /\ text.line = "pay" <=> type = "pay_advance_deliver"
                 /\ text.line = "none" <=> type = "pay_self"
                 /\ text.line = "none" => text.lowest = None
                 /\ text.line # "none"
                       => /\ text.lowest = last.lowest
                          /\ \E m \in Eligible :
                                /\ m.nickname = text.lowest
                                /\ \A n \in Eligible : m.balance <= n.balance

C20_Witness ==
    /\ Reminded /\ last.outcome = "ok"
    /\ \E i \in Posts :
          /\ last.calls[i].text.line = "pay"
          /\ last.calls[i].text.lowest = last.lowest
    /\ \E m, n \in Eligible : m.nickname = last.lowest /\ m.balance < n.balance

\* C21: a check that fails at a collaborator step has either posted no
\* announcement or left the announced option as the item's Choice, so no
\* announcement stands in the channel without its stored decision.
C21_AnnouncedIsPersisted ==
    (Tallied /\ last.outcome \notin {"ok", "return"})
        => (last.ts = NoTs \/ Rec.Choice = last.choice)

\* C22: the item post_vote and check write is under the key of the channel
\* they were called with, where the lookups of check and remind read: after
\* a post_vote that ends normally last_poll finds the poll's item there, and
\* after a check that ends normally last_poll_and_bee finds the decided item.
C22_StoredUnderLookupKey ==
    /\ (last.op = "post_vote" /\ last.outcome = "ok")
          => (last_poll(Rec) = "ok" /\ Rec.Msg = last.ts)
    /\ (last.op = "check" /\ last.outcome = "ok")
          => (last_poll_and_bee(Rec) = "ok" /\ Rec.Choice = last.choice)

====
